---- MODULE Spec2Model ----
(***************************************************************************)
(* The YouTube OAuth bridge: the serverless handlers of the repository,    *)
(* the `state` codec they share, and the browser / identity provider that  *)
(* carry values between two invocations.                                   *)
(*                                                                         *)
(* Text is modelled as it is on the wire: a string is a sequence of        *)
(* character codes (ASCII), so that JSON.stringify, JSON.parse, base64url, *)
(* encodeURIComponent and decodeURIComponent are computed, not assumed.    *)
(* A query parameter that is missing and one that is the empty string are  *)
(* both the empty sequence: every test the handlers make on a parameter is *)
(* a truthiness test, which cannot tell the two apart.                     *)
(***************************************************************************)
EXTENDS Integers, Sequences, FiniteSets, TLC

(***************************************************************************)
(* JavaScript values, as far as the handlers look at them.                 *)
(***************************************************************************)
JUndefined == [t |-> "undefined", s |-> <<>>, n |-> 0, m |-> <<>>]
JNull == [t |-> "null", s |-> <<>>, n |-> 0, m |-> <<>>]
JStr(s) == [t |-> "string", s |-> s, n |-> 0, m |-> <<>>]
\* a number keeps its text in s; n is 0 exactly when the number is 0
JNum(n) == [t |-> "number", s |-> <<>>, n |-> n, m |-> <<>>]
JBool(b) == [t |-> "boolean", s |-> <<>>, n |-> IF b THEN 1 ELSE 0, m |-> <<>>]
\* m: the members <<key, value>> in source order
JObj(m) == [t |-> "object", s |-> <<>>, n |-> 0, m |-> m]
\* m: the elements
JArr(m) == [t |-> "array", s |-> <<>>, n |-> 0, m |-> m]

\* ToBoolean: what `a && b`, `a || b`, `a ? b : c` and `if (a)` read
Truthy(v) ==
    CASE v.t = "undefined" -> FALSE
      [] v.t = "null" -> FALSE
      [] v.t = "string" -> Len(v.s) > 0
      [] v.t = "number" -> v.n # 0
      [] v.t = "boolean" -> v.n = 1
      [] OTHER -> TRUE

\* a || b
Or(a, b) == IF Truthy(a) THEN a ELSE b

RECURSIVE LastMember(_, _, _)
LastMember(m, key, i) ==
    IF i = 0 THEN JUndefined
    ELSE IF m[i][1] = key THEN m[i][2]
    ELSE LastMember(m, key, i - 1)

\* v.key for a v that is neither null nor undefined: an object has the
\* member JSON.parse kept (the last one of that name); a primitive or an
\* array has no such property
Get(v, key) ==
    IF v.t = "object" THEN LastMember(v.m, key, Len(v.m)) ELSE JUndefined

\* the least element of a non-empty set of numbers
Least(S) == CHOOSE x \in S : \A y \in S : x <= y

\* the least element of S, or d when S is empty
LeastOr(S, d) == IF S = {} THEN d ELSE Least(S)

\* the first position from i on where s has a character of S, Len(s) + 1
\* when there is none
NextIn(s, i, S) == LeastOr({j \in i..Len(s) : s[j] \in S}, Len(s) + 1)

(***************************************************************************)
(* base64url, as Buffer implements it.                                     *)
(***************************************************************************)
\* the character of a 6-bit value in the base64url alphabet
B64UrlChar(i) ==
    IF i < 26 THEN 65 + i
    ELSE IF i < 52 THEN 97 + (i - 26)
    ELSE IF i < 62 THEN 48 + (i - 52)
    ELSE IF i = 62 THEN 45 ELSE 95

\* the 6-bit value of a character, -1 when it has none; Buffer reads the
\* base64 and the base64url alphabet alike
Unbase64(c) ==
    IF c >= 65 /\ c <= 90 THEN c - 65
    ELSE IF c >= 97 /\ c <= 122 THEN c - 97 + 26
    ELSE IF c >= 48 /\ c <= 57 THEN c - 48 + 52
    ELSE IF c = 45 \/ c = 43 THEN 62
    ELSE IF c = 95 \/ c = 47 THEN 63
    ELSE -1

\* 2^k for the shifts used below
Pow2(k) == IF k = 0 THEN 1 ELSE IF k = 2 THEN 4 ELSE IF k = 4 THEN 16
           ELSE IF k = 6 THEN 64 ELSE IF k = 8 THEN 256 ELSE 1024

\* the 16 bits of b that start with byte k (zeros after the last byte)
TwoBytes(b, k) == b[k] * 256 + (IF k + 1 <= Len(b) THEN b[k + 1] ELSE 0)

\* Buffer.from(bytes).toString('base64url'): the bits of the bytes in groups
\* of six, the last group filled with zeros, no padding
Base64UrlEncode(b) ==
    [c \in 1..((8 * Len(b) + 5) \div 6) |->
        B64UrlChar((TwoBytes(b, (6 * (c - 1)) \div 8 + 1)
                    \div Pow2(10 - ((6 * (c - 1)) % 8))) % 64)]

IsBase64Char(c) == Unbase64(c) >= 0

\* the 6-bit values of the characters of s that have one
SextetsOf(legal) == [i \in 1..Len(legal) |-> Unbase64(legal[i])]

\* the 6-bit values the decoder reads: '=' ends the input, a character
\* outside the alphabet is skipped
Sextets(s) ==
    SextetsOf(SelectSeq(SubSeq(s, 1, NextIn(s, 1, {61}) - 1), IsBase64Char))

\* the bytes of a run of 6-bit values; an incomplete last byte is dropped
SextetsToBytes(x) ==
    [k \in 1..((6 * Len(x)) \div 8) |->
        ((x[(8 * (k - 1)) \div 6 + 1] * 64 + x[(8 * (k - 1)) \div 6 + 2])
         \div Pow2(4 - ((8 * (k - 1)) % 6))) % 256]

\* Buffer.from(s, 'base64url'): never fails
Base64Decode(s) == SextetsToBytes(Sextets(s))

\* buf.toString('utf-8') on the ASCII range; a byte that is no ASCII
\* character decodes to U+FFFD (the strings of this model are ASCII)
Utf8ToString(b) == [i \in 1..Len(b) |-> IF b[i] < 128 THEN b[i] ELSE 65533]

(***************************************************************************)
(* Outcomes of a call that may throw.                                      *)
(***************************************************************************)
Return(v) == [throws |-> FALSE, v |-> v]
Throw == [throws |-> TRUE, v |-> JUndefined]

(***************************************************************************)
(* JSON.stringify of the state payload and JSON.parse.                     *)
(***************************************************************************)
HexDigit(d) == IF d < 10 THEN 48 + d ELSE 97 + (d - 10)

\* the text JSON.stringify writes for a character it escapes
QuoteChar(c) ==
    IF c = 34 THEN <<92, 34>>
    ELSE IF c = 92 THEN <<92, 92>>
    ELSE IF c = 8 THEN <<92, 98>>
    ELSE IF c = 9 THEN <<92, 116>>
    ELSE IF c = 10 THEN <<92, 110>>
    ELSE IF c = 12 THEN <<92, 102>>
    ELSE IF c = 13 THEN <<92, 114>>
    ELSE <<92, 117, 48, 48, HexDigit(c \div 16), HexDigit(c % 16)>>

\* the characters JSON.stringify escapes, and that end a run of plain text
\* in JSON.parse: the quote, the backslash, the control characters
JsonSpecial == {34, 92} \cup 0..31

RECURSIVE QuoteChars(_, _)
RECURSIVE QuoteRun(_, _, _)
\* the text of s from position i on, a run of plain characters at a time
QuoteChars(s, i) ==
    IF i > Len(s) THEN <<>> ELSE QuoteRun(s, i, NextIn(s, i, JsonSpecial))

\* the plain run s[i..j-1] and, after it, the escaped character at j
QuoteRun(s, i, j) ==
    IF j > Len(s) THEN SubSeq(s, i, j - 1)
    ELSE SubSeq(s, i, j - 1) \o QuoteChar(s[j]) \o QuoteChars(s, j + 1)

\* JSON.stringify(s) for a string s
JSONQuote(s) == <<34>> \o QuoteChars(s, 1) \o <<34>>

\* the property names redirect_uri and csrf
RedirectUriKey == <<114, 101, 100, 105, 114, 101, 99, 116, 95, 117, 114, 105>>
CsrfKey == <<99, 115, 114, 102>>

\* JSON.stringify({ redirect_uri: redirectUri, csrf: csrfToken })
JSONStringifyState(redirectUri, csrfToken) ==
    <<123>> \o JSONQuote(RedirectUriKey) \o <<58>> \o JSONQuote(redirectUri)
    \o <<44>> \o JSONQuote(CsrfKey) \o <<58>> \o JSONQuote(csrfToken) \o <<125>>

\* a parse step: the value read and the position after it
ParseFail == [ok |-> FALSE, v |-> JUndefined, pos |-> 0]
ParseOk(v, pos) == [ok |-> TRUE, v |-> v, pos |-> pos]

JsonWhitespace == {32, 9, 10, 13}

\* the first position from i on that holds no whitespace
SkipWs(b, i) == LeastOr({j \in i..Len(b) : b[j] \notin JsonWhitespace}, Len(b) + 1)

HexVal(c) ==
    IF c >= 48 /\ c <= 57 THEN c - 48
    ELSE IF c >= 97 /\ c <= 102 THEN c - 87
    ELSE IF c >= 65 /\ c <= 70 THEN c - 55
    ELSE -1

\* the character a two-character escape stands for, -1 when there is none
EscapeVal(e) ==
    IF e \in {34, 92, 47} THEN e
    ELSE IF e = 98 THEN 8
    ELSE IF e = 102 THEN 12
    ELSE IF e = 110 THEN 10
    ELSE IF e = 114 THEN 13
    ELSE IF e = 116 THEN 9
    ELSE -1

\* whether \uXXXX is at position i (the backslash)
IsUnicodeEscape(b, i) ==
    i + 5 <= Len(b) /\ b[i + 1] = 117 /\ \A k \in 2..5 : HexVal(b[i + k]) >= 0

UnicodeEscapeVal(b, i) ==
    HexVal(b[i + 2]) * 4096 + HexVal(b[i + 3]) * 256
    + HexVal(b[i + 4]) * 16 + HexVal(b[i + 5])

RECURSIVE ParseString(_, _, _)
\* a string whose opening quote is before position i
ParseString(b, i, acc) ==
    IF i > Len(b) THEN ParseFail
    ELSE IF b[i] = 34 THEN ParseOk(JStr(acc), i + 1)
    ELSE IF b[i] < 32 THEN ParseFail
    ELSE IF b[i] = 92 THEN
        IF IsUnicodeEscape(b, i)
        THEN ParseString(b, i + 6, Append(acc, UnicodeEscapeVal(b, i)))
        ELSE IF i + 1 > Len(b) \/ EscapeVal(b[i + 1]) < 0 THEN ParseFail
        ELSE ParseString(b, i + 2, Append(acc, EscapeVal(b[i + 1])))
    ELSE ParseString(b, NextIn(b, i, JsonSpecial),
                     acc \o SubSeq(b, i, NextIn(b, i, JsonSpecial) - 1))

Digits == 48..57

\* the position after the digits that start at i
DigitsEnd(b, i) == LeastOr({j \in i..Len(b) : b[j] \notin Digits}, Len(b) + 1)

\* a number is  -? int frac? exp? : the positions after its parts, 0 when
\* the part is ill-formed
IntEnd(b, s) ==
    IF s > Len(b) \/ b[s] \notin Digits THEN 0
    ELSE IF b[s] = 48 THEN s + 1 ELSE DigitsEnd(b, s)

FracEnd(b, p) ==
    IF p = 0 THEN 0
    ELSE IF p > Len(b) \/ b[p] # 46 THEN p
    ELSE IF DigitsEnd(b, p + 1) = p + 1 THEN 0 ELSE DigitsEnd(b, p + 1)

ExpDigits(b, q) == IF DigitsEnd(b, q) = q THEN 0 ELSE DigitsEnd(b, q)

ExpEnd(b, p) ==
    IF p = 0 THEN 0
    ELSE IF p > Len(b) \/ b[p] \notin {101, 69} THEN p
    ELSE IF p + 1 <= Len(b) /\ b[p + 1] \in {43, 45} THEN ExpDigits(b, p + 2)
    ELSE ExpDigits(b, p + 1)

\* the number whose text is b[i..e-1]: kept as its text, and as whether it
\* is zero (it is when all digits before the exponent are)
NumberAt(b, i, e) ==
    IF e = 0 THEN ParseFail
    ELSE ParseOk([t |-> "number", s |-> SubSeq(b, i, e - 1),
                  n |-> IF \E k \in i..(NextIn(b, i, {101, 69}) - 1) :
                               k < e /\ b[k] \in 49..57
                        THEN 1 ELSE 0,
                  m |-> <<>>], e)

ParseNumber(b, i) ==
    NumberAt(b, i, ExpEnd(b, FracEnd(b, IntEnd(b, IF b[i] = 45 THEN i + 1 ELSE i))))

\* the literal lit at position i
ParseLiteral(b, i, lit, v) ==
    IF i + Len(lit) - 1 <= Len(b) /\ SubSeq(b, i, i + Len(lit) - 1) = lit
    THEN ParseOk(v, i + Len(lit)) ELSE ParseFail

RECURSIVE ParseValue(_, _)
RECURSIVE ParseMembers(_, _, _)
RECURSIVE MemberColon(_, _, _)
RECURSIVE MemberValue(_, _, _, _)
RECURSIVE MemberNext(_, _, _)
RECURSIVE ParseElems(_, _, _)
RECURSIVE ElemNext(_, _, _)

\* the value that starts at position i (whitespace already skipped)
ParseValueAt(b, i) ==
    IF i > Len(b) THEN ParseFail
    ELSE IF b[i] = 123 THEN ParseMembers(b, SkipWs(b, i + 1), <<>>)
    ELSE IF b[i] = 91 THEN ParseElems(b, SkipWs(b, i + 1), <<>>)
    ELSE IF b[i] = 34 THEN ParseString(b, i + 1, <<>>)
    ELSE IF b[i] = 45 \/ b[i] \in Digits THEN ParseNumber(b, i)
    ELSE IF b[i] = 116 THEN ParseLiteral(b, i, <<116, 114, 117, 101>>, JBool(TRUE))
    ELSE IF b[i] = 102 THEN ParseLiteral(b, i, <<102, 97, 108, 115, 101>>, JBool(FALSE))
    ELSE IF b[i] = 110 THEN ParseLiteral(b, i, <<110, 117, 108, 108>>, JNull)
    ELSE ParseFail

ParseValue(b, i) == ParseValueAt(b, SkipWs(b, i))

\* the members of an object from position i on: '}' at once when none was
\* read yet, else a key
ParseMembers(b, i, acc) ==
    IF i > Len(b) THEN ParseFail
    ELSE IF b[i] = 125 /\ acc = <<>> THEN ParseOk(JObj(acc), i + 1)
    ELSE IF b[i] # 34 THEN ParseFail
    ELSE MemberColon(b, acc, ParseString(b, i + 1, <<>>))

\* after the key k: the colon
MemberColon(b, acc, k) ==
    IF ~k.ok THEN ParseFail
    ELSE IF SkipWs(b, k.pos) > Len(b) \/ b[SkipWs(b, k.pos)] # 58 THEN ParseFail
    ELSE MemberValue(b, acc, k.v.s, ParseValue(b, SkipWs(b, k.pos) + 1))

\* after the value v of key
MemberValue(b, acc, key, v) ==
    IF ~v.ok THEN ParseFail
    ELSE MemberNext(b, Append(acc, <<key, v.v>>), SkipWs(b, v.pos))

\* after a member: '}' or ',' and the next member
MemberNext(b, acc, d) ==
    IF d > Len(b) THEN ParseFail
    ELSE IF b[d] = 125 THEN ParseOk(JObj(acc), d + 1)
    ELSE IF b[d] = 44 /\ SkipWs(b, d + 1) <= Len(b) /\ b[SkipWs(b, d + 1)] = 34
         THEN ParseMembers(b, SkipWs(b, d + 1), acc)
    ELSE ParseFail

\* the elements of an array from position i on: ']' at once when none was
\* read yet, else a value
ParseElems(b, i, acc) ==
    IF i > Len(b) THEN ParseFail
    ELSE IF b[i] = 93 /\ acc = <<>> THEN ParseOk(JArr(acc), i + 1)
    ELSE ElemNext(b, acc, ParseValueAt(b, i))

\* after the element v
ElemNext(b, acc, v) ==
    IF ~v.ok THEN ParseFail
    ELSE IF SkipWs(b, v.pos) > Len(b) THEN ParseFail
    ELSE IF b[SkipWs(b, v.pos)] = 93
         THEN ParseOk(JArr(Append(acc, v.v)), SkipWs(b, v.pos) + 1)
    ELSE IF b[SkipWs(b, v.pos)] = 44 /\ SkipWs(b, SkipWs(b, v.pos) + 1) <= Len(b)
            /\ b[SkipWs(b, SkipWs(b, v.pos) + 1)] # 93
         THEN ParseElems(b, SkipWs(b, SkipWs(b, v.pos) + 1), Append(acc, v.v))
    ELSE ParseFail

\* the whole text must be one value
WholeText(b, r) ==
    IF r.ok /\ SkipWs(b, r.pos) = Len(b) + 1 THEN Return(r.v) ELSE Throw

\* JSON.parse(text): the value, or a SyntaxError
JSONParse(b) == WholeText(b, ParseValue(b, 1))

(***************************************************************************)
(* The state codec (the same text in both revisions of the bridge).        *)
(***************************************************************************)
\* encodeState with the payload put together by hand, nothing escaped
encodeStateUnquoted(redirectUri, csrfToken) ==
    Base64UrlEncode(<<123>> \o JSONQuote(RedirectUriKey) \o <<58, 34>> \o redirectUri
                    \o <<34, 44>> \o JSONQuote(CsrfKey) \o <<58, 34>> \o csrfToken
                    \o <<34, 125>>)

encodeState(redirectUri, csrfToken) ==
    Base64UrlEncode(JSONStringifyState(redirectUri, csrfToken))

\* if (parsed.redirect_uri && parsed.csrf) return parsed; return null;
\* reading a property of null throws
CheckParsed(parsed) ==
    IF parsed.throws THEN Throw
    ELSE IF parsed.v.t = "null" THEN Throw
    ELSE IF Truthy(Get(parsed.v, RedirectUriKey)) /\ Truthy(Get(parsed.v, CsrfKey))
         THEN Return(parsed.v)
    ELSE Return(JNull)

\* the body of decodeState's try block
decodeStateTry(state) ==
    CheckParsed(JSONParse(Utf8ToString(Base64Decode(state))))

\* catch { return null; }
CatchNull(r) == IF r.throws THEN Return(JNull) ELSE r

\* decodeState without its try / catch
decodeStateNoCatch(state) == decodeStateTry(state)

decodeState(state) == CatchNull(decodeStateTry(state))

(***************************************************************************)
(* encodeURIComponent, decodeURIComponent and the Cookie header.           *)
(***************************************************************************)
\* A-Z a-z 0-9 - _ . ! ~ * ' ( )
IsUriUnreserved(c) ==
    \/ c >= 65 /\ c <= 90
    \/ c >= 97 /\ c <= 122
    \/ c >= 48 /\ c <= 57
    \/ c \in {45, 95, 46, 33, 126, 42, 39, 40, 41}

UriReserved == {c \in 0..127 : ~IsUriUnreserved(c)}

UpperHexDigit(d) == IF d < 10 THEN 48 + d ELSE 65 + (d - 10)

RECURSIVE EncodeUriFrom(_, _)
RECURSIVE EncodeUriRun(_, _, _)
EncodeUriFrom(s, i) ==
    IF i > Len(s) THEN <<>> ELSE EncodeUriRun(s, i, NextIn(s, i, UriReserved))

\* the unreserved run s[i..j-1] and, after it, the character at j as %XX
EncodeUriRun(s, i, j) ==
    IF j > Len(s) THEN SubSeq(s, i, j - 1)
    ELSE SubSeq(s, i, j - 1)
         \o <<37, UpperHexDigit(s[j] \div 16), UpperHexDigit(s[j] % 16)>>
         \o EncodeUriFrom(s, j + 1)

\* every character but the unreserved ones becomes %XX (ASCII input)
encodeURIComponent(s) == EncodeUriFrom(s, 1)

\* the byte the escape %XX at position i stands for, -1 when there is no
\* well-formed escape there
EscapeByte(s, i) ==
    IF i + 2 <= Len(s) /\ s[i] = 37 /\ HexVal(s[i + 1]) >= 0 /\ HexVal(s[i + 2]) >= 0
    THEN 16 * HexVal(s[i + 1]) + HexVal(s[i + 2])
    ELSE -1

\* how many bytes the UTF-8 sequence led by byte b has, 0 when b leads none
Utf8Length(b) ==
    IF b < 0 THEN 0
    ELSE IF b < 128 THEN 1
    ELSE IF b >= 194 /\ b <= 223 THEN 2
    ELSE IF b >= 224 /\ b <= 239 THEN 3
    ELSE IF b >= 240 /\ b <= 244 THEN 4
    ELSE 0

\* the escaped bytes of an n-byte sequence at position i
EscapedBytes(s, i, n) == [k \in 1..n |-> EscapeByte(s, i + 3 * (k - 1))]

\* the code point of the UTF-8 bytes u, -1 when they are no UTF-8
CodePoint(u) ==
    IF \E k \in 2..Len(u) : u[k] < 128 \/ u[k] > 191 THEN -1
    ELSE IF Len(u) = 1 THEN u[1]
    ELSE IF Len(u) = 2 THEN (u[1] - 192) * 64 + (u[2] - 128)
    ELSE IF Len(u) = 3 THEN
        IF u[1] = 224 /\ u[2] < 160 THEN -1
        ELSE IF u[1] = 237 /\ u[2] > 159 THEN -1
        ELSE (u[1] - 224) * 4096 + (u[2] - 128) * 64 + (u[3] - 128)
    ELSE
        IF u[1] = 240 /\ u[2] < 144 THEN -1
        ELSE IF u[1] = 244 /\ u[2] > 143 THEN -1
        ELSE (u[1] - 240) * 262144 + (u[2] - 128) * 4096
             + (u[3] - 128) * 64 + (u[4] - 128)

RECURSIVE DecodeUriFrom(_, _, _)
RECURSIVE DecodeUriEscape(_, _, _, _)
\* decodeURIComponent from position i on
DecodeUriFrom(s, i, acc) ==
    IF i > Len(s) THEN Return(JStr(acc))
    ELSE IF s[i] # 37 THEN
        DecodeUriFrom(s, NextIn(s, i, {37}),
                      acc \o SubSeq(s, i, NextIn(s, i, {37}) - 1))
    ELSE DecodeUriEscape(s, i, acc, Utf8Length(EscapeByte(s, i)))

\* the escapes at position i, which should be the n bytes of one character:
\* a '%' that starts no escape, or escapes that are no UTF-8, raise URIError
DecodeUriEscape(s, i, acc, n) ==
    IF n = 0 THEN Throw
    ELSE IF CodePoint(EscapedBytes(s, i, n)) < 0 THEN Throw
    ELSE DecodeUriFrom(s, i + 3 * n, Append(acc, CodePoint(EscapedBytes(s, i, n))))

decodeURIComponent(s) == DecodeUriFrom(s, 1, <<>>)

\* the cookie names oauth_redirect_uri and oauth_state
OAuthRedirectUriCookie ==
    <<111, 97, 117, 116, 104, 95, 114, 101, 100, 105, 114, 101, 99, 116, 95,
      117, 114, 105>>
OAuthStateCookie == <<111, 97, 117, 116, 104, 95, 115, 116, 97, 116, 101>>

\* where (^| )key([^;]+) can match in the header: the positions of key
CookieMatches(cookie, key) ==
    {p \in 1..Len(cookie) :
        /\ p = 1 \/ cookie[p - 1] = 32
        /\ p + Len(key) <= Len(cookie)
        /\ SubSeq(cookie, p, p + Len(key) - 1) = key
        /\ cookie[p + Len(key)] # 59}

\* the text from position from up to the next ';'
CookieValueAt(cookie, from) == SubSeq(cookie, from, NextIn(cookie, from, {59}) - 1)

\* decodeURIComponent(match[2]) for the first match, null without a match
DecodeFirstMatch(cookie, key, starts) ==
    IF starts = {} THEN Return(JNull)
    ELSE decodeURIComponent(CookieValueAt(cookie, Least(starts) + Len(key)))

\* getCookieValue(req, name), cookie being req.headers.cookie || ''
getCookieValue(cookie, name) ==
    DecodeFirstMatch(cookie, name \o <<61>>, CookieMatches(cookie, name \o <<61>>))

\* the Cookie header a browser sends that holds the two backup cookies
CookieHeader(uriValue, stateValue) ==
    OAuthRedirectUriCookie \o <<61>> \o uriValue \o <<59, 32>>
    \o OAuthStateCookie \o <<61>> \o stateValue

RECURSIVE JoinElems(_, _)
RECURSIVE JsToString(_)
\* Array.prototype.join(','): null and undefined elements are empty
JoinElems(m, i) ==
    IF i > Len(m) THEN <<>>
    ELSE (IF i > 1 THEN <<44>> ELSE <<>>)
         \o (IF m[i].t \in {"null", "undefined"} THEN <<>> ELSE JsToString(m[i]))
         \o JoinElems(m, i + 1)

\* the text a template literal makes of a value
JsToString(v) ==
    CASE v.t = "string" -> v.s
      [] v.t = "number" -> v.s
      [] v.t = "boolean" ->
            IF v.n = 1 THEN <<116, 114, 117, 101>> ELSE <<102, 97, 108, 115, 101>>
      [] v.t = "null" -> <<110, 117, 108, 108>>
      [] v.t = "undefined" -> <<117, 110, 100, 101, 102, 105, 110, 101, 100>>
      [] v.t = "array" -> JoinElems(v.m, 1)
      [] OTHER ->
            <<91, 111, 98, 106, 101, 99, 116, 32, 79, 98, 106, 101, 99, 116, 93>>

(***************************************************************************)
(* Configuration and the values the clients and the provider supply.       *)
(***************************************************************************)
\* process.env.DEFAULT_REDIRECT_URI is unset:
\* 'https://insights-growth-trends.deploypad.app/oauth/callback'
FALLBACK_REDIRECT_URI ==
    <<104, 116, 116, 112, 115, 58, 47, 47, 105, 110, 115, 105, 103, 104,
      116, 115, 45, 103, 114, 111, 119, 116, 104, 45, 116, 114, 101, 110,
      100, 115, 46, 100, 101, 112, 108, 111, 121, 112, 97, 100, 46, 97, 112,
      112, 47, 111, 97, 117, 116, 104, 47, 99, 97, 108, 108, 98, 97, 99,
      107>>

\* 'https://accounts.google.com/o/oauth2/v2/auth'
GOOGLE_AUTH_URL ==
    <<104, 116, 116, 112, 115, 58, 47, 47, 97, 99, 99, 111, 117, 110, 116,
      115, 46, 103, 111, 111, 103, 108, 101, 46, 99, 111, 109, 47, 111, 47,
      111, 97, 117, 116, 104, 50, 47, 118, 50, 47, 97, 117, 116, 104>>

DEFAULT_SCOPES ==
    "https://www.googleapis.com/auth/youtube.readonly https://www.googleapis.com/auth/yt-analytics.readonly"

\* the deployments: both client settings present, or one of them missing
\* (an unset variable reads as the empty text, which is as falsy)
Configured ==
    [GOOGLE_CLIENT_ID |-> "client-id", GOOGLE_CLIENT_SECRET |-> "client-secret"]

Envs ==
    {Configured,
     [GOOGLE_CLIENT_ID |-> "", GOOGLE_CLIENT_SECRET |-> "client-secret"],
     [GOOGLE_CLIENT_ID |-> "client-id", GOOGLE_CLIENT_SECRET |-> ""]}

\* frontend URIs a client asks for: 'a:/?x=1&y#%' and 'b:/"\'
AppUri1 == <<97, 58, 47, 63, 120, 61, 49, 38, 121, 35, 37>>
AppUri2 == <<98, 58, 47, 34, 92>>

\* what generateState() may return: 'n1', 'n2' stand for two of its values
Nonces == {<<110, 49>>, <<110, 50>>}

\* a `state` query parameter a client sends when it starts a flow: 'cs'
ClientState == <<99, 115>>

\* `state` values that no INITIATE of this bridge emitted:
\*   '!{}'                                              not base64url
\*   base64url of 'null'                                JSON, not an object
\*   base64url of '{"redirect_uri":"b:/c"}'             csrf missing
\*   base64url of '{"redirect_uri":5,"csrf":true}'      fields of other types
\*   base64url of '{"redirect_uri":[1],"csrf":{}}'      fields of other types
ForgedStates ==
    {<<33, 123, 125>>,
     <<98, 110, 86, 115, 98, 65>>,
     <<101, 121, 74, 121, 90, 87, 82, 112, 99, 109, 86, 106, 100, 70, 57, 49,
       99, 109, 107, 105, 79, 105, 74, 105, 79, 105, 57, 106, 73, 110, 48>>,
     <<101, 121, 74, 121, 90, 87, 82, 112, 99, 109, 86, 106, 100, 70, 57, 49,
       99, 109, 107, 105, 79, 106, 85, 115, 73, 109, 78, 122, 99, 109, 89,
       105, 79, 110, 82, 121, 100, 87, 86, 57>>,
     <<101, 121, 74, 121, 90, 87, 82, 112, 99, 109, 86, 106, 100, 70, 57, 49,
       99, 109, 107, 105, 79, 108, 115, 120, 88, 83, 119, 105, 89, 51, 78,
       121, 90, 105, 73, 54, 101, 51, 49, 57>>}

\* a Cookie header left by another flow (AppUri2, 'n2'), and one whose
\* oauth_redirect_uri is the ill-formed escape '%E0%A4%A'
ForeignCookie == CookieHeader(encodeURIComponent(AppUri2), <<110, 50>>)
MalformedCookie == CookieHeader(<<37, 69, 48, 37, 65, 52, 37, 65>>, <<110, 49>>)

\* `${proto}://${host}/api/auth/youtube` for the request's forwarding headers
getHandlerUrl == "https://bridge.example/api/auth/youtube"

AuthCode == "auth-code-1"
AccessToken == "access-token-1"
RefreshToken == "refresh-token-1"
Channel == [id |-> "UC123", title |-> "Demo Channel", thumbnail |-> "https://img.example/t.jpg"]

\* how many authorizations can be under way at the provider at once
MaxPending == 1

\* the longest text the codec is applied to, character by character
MaxLen == 2

\* the non-empty texts over the characters S of at most n characters
Texts(S, n) == UNION {[1..k -> S] : k \in 1..n}

\* characters of the URIs and tokens the codec is given:  a ? & = # % " \ LF
UriAlphabet == {97, 63, 38, 61, 35, 37, 34, 92, 10}

\* characters of `state` values that were never encoded:  ! e y J = - _ A
RawAlphabet == {33, 101, 121, 74, 61, 45, 95, 65}

\* characters of payloads that are about JSON:  { } [ ] " : , 1 - n space
JsonAlphabet == {123, 125, 91, 93, 34, 58, 44, 49, 45, 110, 32}

\* payloads that are JSON, or nearly, and not what encodeState writes:
\*   null   5   "x"   true   {}   {"redirect_uri":"b:/c"}   {"csrf":"n"}
\*   {"redirect_uri":"","csrf":"n"}   {"redirect_uri":"b:/c","csrf":""}
\*   {"redirect_uri":null,"csrf":"n"}   {"redirect_uri":"b:/c","csrf":"n"
\*   [{"redirect_uri":"b:/c","csrf":"n"}]
CorruptPayloads ==
    {<<110, 117, 108, 108>>,
     <<53>>,
     <<34, 120, 34>>,
     <<116, 114, 117, 101>>,
     <<123, 125>>,
     <<123, 34, 114, 101, 100, 105, 114, 101, 99, 116, 95, 117, 114, 105,
       34, 58, 34, 98, 58, 47, 99, 34, 125>>,
     <<123, 34, 99, 115, 114, 102, 34, 58, 34, 110, 34, 125>>,
     <<123, 34, 114, 101, 100, 105, 114, 101, 99, 116, 95, 117, 114, 105,
       34, 58, 34, 34, 44, 34, 99, 115, 114, 102, 34, 58, 34, 110, 34, 125>>,
     <<123, 34, 114, 101, 100, 105, 114, 101, 99, 116, 95, 117, 114, 105,
       34, 58, 34, 98, 58, 47, 99, 34, 44, 34, 99, 115, 114, 102, 34, 58,
       34, 34, 125>>,
     <<123, 34, 114, 101, 100, 105, 114, 101, 99, 116, 95, 117, 114, 105,
       34, 58, 110, 117, 108, 108, 44, 34, 99, 115, 114, 102, 34, 58, 34,
       110, 34, 125>>,
     <<123, 34, 114, 101, 100, 105, 114, 101, 99, 116, 95, 117, 114, 105,
       34, 58, 34, 98, 58, 47, 99, 34, 44, 34, 99, 115, 114, 102, 34, 58,
       34, 110, 34>>,
     <<91, 123, 34, 114, 101, 100, 105, 114, 101, 99, 116, 95, 117, 114,
       105, 34, 58, 34, 98, 58, 47, 99, 34, 44, 34, 99, 115, 114, 102, 34,
       58, 34, 110, 34, 125, 93>>}

VARIABLES
    env,      \* the deployment's environment variables
    pending,  \* authorizations under way: the `state` a browser carries through the provider
    inv,      \* the invocation being served
    inv2,     \* an invocation served at the same time as inv
    probe     \* an application of the codec to chosen arguments

vars == <<env, pending, inv, inv2, probe>>

(***************************************************************************)
(* Requests and responses.                                                 *)
(***************************************************************************)
\* a request: its method, the query parameters the handlers may read (an
\* absent one is the empty text) and its Cookie header
Req(route, method, code, error, state, redirect_uri, scope, cookie, error_description) ==
    [route |-> route, method |-> method, code |-> code, error |-> error,
     state |-> state, redirect_uri |-> redirect_uri, scope |-> scope,
     cookie |-> cookie, error_description |-> error_description]

NoRequest == Req("", "", "", "", <<>>, <<>>, "", <<>>, "")

\* a response: for a redirect, base is the text before '?', params the
\* URLSearchParams after it (the `state` parameter is kept in state, being
\* text of the codec); body is what status(..).json / send / end was given,
\* as the texts it is made of, in order (for JSON: each name, then its value)
Resp(status, kind, base, params, state, body, cookies) ==
    [status |-> status, kind |-> kind, base |-> base, params |-> params,
     state |-> state, body |-> body, cookies |-> cookies]

NoResponse == Resp(0, "none", <<>>, <<>>, <<>>, <<>>, <<>>)

SetCookie(name, value, attrs, maxAge) ==
    [name |-> name, value |-> value, attrs |-> attrs, maxAge |-> maxAge]

\* no answer of an endpoint yet
NoAnswer == [net |-> "none"]

\* an invocation: its request, how far it got (pc), its locals, the outbound
\* calls it made, the responses it sent, whether an exception left it
IdleInv ==
    [pc |-> "idle", req |-> NoRequest, decodedState |-> JNull,
     cookieRedirectUri |-> JNull, uri |-> JUndefined, csrf |-> <<>>,
     tokenResponse |-> NoAnswer, channelResponse |-> NoAnswer,
     access |-> "", refresh |-> "", calls |-> <<>>, cors |-> FALSE,
     res |-> NoResponse, sent |-> 0, uncaught |-> ""]

Start(req) == [IdleInv EXCEPT !.pc = "run", !.req = req]

\* res.redirect / res.status(..).json / .send / .end: the invocation ends
Send(i, res) == [i EXCEPT !.pc = "done", !.res = res, !.sent = @ + 1]

\* an exception raised by the call `what` leaves the handler: the platform
\* answers, not the handler
Escape(i, what) == [i EXCEPT !.pc = "done", !.uncaught = what]

\* state ? decodeState(state) : null
DecodeIfGiven(state) == IF state # <<>> THEN decodeState(state) ELSE Return(JNull)

\* v?.key
OptGet(v, key) == IF v.t \in {"null", "undefined"} THEN JUndefined ELSE Get(v, key)

\* the two Set-Cookie headers that expire the backup cookies
ClearedCookies(attrs) ==
    <<SetCookie("oauth_redirect_uri", <<>>, attrs, 0),
      SetCookie("oauth_state", <<>>, attrs, 0)>>

\* the two Set-Cookie headers of INITIATE
BackupCookies(redirectUri, csrfToken, attrs) ==
    <<SetCookie("oauth_redirect_uri", encodeURIComponent(redirectUri), attrs, 600),
      SetCookie("oauth_state", csrfToken, attrs, 600)>>

\* the parameters of the authorization URL (`state` apart)
AuthParams(clientId, scope) ==
    <<<<"client_id", clientId>>, <<"redirect_uri", getHandlerUrl>>,
      <<"response_type", "code">>,
      <<"scope", IF scope # "" THEN scope ELSE DEFAULT_SCOPES>>,
      <<"access_type", "offline">>, <<"prompt", "consent">>>>

(***************************************************************************)
(* What the token endpoint and the channel endpoint may answer.            *)
(*   net:  "reject" when fetch itself fails                                *)
(*   ok:   a 2xx status                                                    *)
(*   body: "json" a JSON object, "text" readable but no JSON object,       *)
(*         "unreadable" when reading the body fails                        *)
(***************************************************************************)
TokenOutcome(net, ok, body, access, refresh) ==
    [net |-> net, ok |-> ok, body |-> body, access |-> access, refresh |-> refresh]

TokenOutcomes ==
    {TokenOutcome("reject", FALSE, "unreadable", "", "")}
    \cup {TokenOutcome("response", ok, body, "", "") :
             ok \in BOOLEAN, body \in {"text", "unreadable"}}
    \cup {TokenOutcome("response", FALSE, "json", "", "")}
    \cup {TokenOutcome("response", TRUE, "json", AccessToken, RefreshToken),
          TokenOutcome("response", TRUE, "json", AccessToken, ""),
          TokenOutcome("response", TRUE, "json", "", "")}

\* items: "missing" no items field, "empty" [], "one" a channel; snippet:
\* whether that channel has a snippet
ChannelOutcome(net, ok, body, items, snippet) ==
    [net |-> net, ok |-> ok, body |-> body, items |-> items, snippet |-> snippet]

ChannelOutcomes ==
    {ChannelOutcome("reject", FALSE, "unreadable", "missing", FALSE)}
    \cup {ChannelOutcome("response", ok, body, "missing", FALSE) :
             ok \in BOOLEAN, body \in {"text", "unreadable"}}
    \cup {ChannelOutcome("response", FALSE, "json", "missing", FALSE)}
    \cup {ChannelOutcome("response", TRUE, "json", "missing", FALSE),
          ChannelOutcome("response", TRUE, "json", "empty", FALSE),
          ChannelOutcome("response", TRUE, "json", "one", TRUE),
          ChannelOutcome("response", TRUE, "json", "one", FALSE)}

(***************************************************************************)
(* src/api/auth/youtube.js                                                 *)
(***************************************************************************)
redirectWithError(i, redirectUri, errorCode, errorDescription) ==
    Send(i, Resp(302, "redirect",
                 JsToString(Or(redirectUri, JStr(FALLBACK_REDIRECT_URI))),
                 <<<<"error", errorCode>>, <<"error_description", errorDescription>>>>,
                 <<>>, <<>>, ClearedCookies("Path=/; HttpOnly")))

\* a || b for two texts
OrText(a, b) == IF a # <<>> THEN a ELSE b

\* the 302 of INITIATE: the authorization URL with the encoded state, and
\* the two backup cookies
redirectToProvider(i, e, finalRedirectUri, csrfToken, attrs) ==
    Send([i EXCEPT !.uri = JStr(finalRedirectUri), !.csrf = csrfToken],
         Resp(302, "redirect", GOOGLE_AUTH_URL,
              AuthParams(e.GOOGLE_CLIENT_ID, i.req.scope),
              encodeState(finalRedirectUri, csrfToken), <<>>,
              BackupCookies(finalRedirectUri, csrfToken, attrs)))

\* initiateOAuth that does not read redirect_uri
initiateOAuthFallbackOnly(i, e, nonce) ==
    IF e.GOOGLE_CLIENT_ID = "" \/ e.GOOGLE_CLIENT_SECRET = "" THEN
        Send(i, Resp(500, "json", <<>>, <<>>, <<>>,
                     <<"error", "OAuth not configured. Missing GOOGLE_CLIENT_ID or GOOGLE_CLIENT_SECRET.",
                       "hint", "Set these in your Vercel project environment variables.">>,
                     <<>>))
    ELSE redirectToProvider(i, e, FALLBACK_REDIRECT_URI, OrText(i.req.state, nonce),
                            "Path=/; HttpOnly; SameSite=Lax; Secure")

initiateOAuth(i, e, nonce) ==
    IF e.GOOGLE_CLIENT_ID = "" \/ e.GOOGLE_CLIENT_SECRET = "" THEN
        Send(i, Resp(500, "json", <<>>, <<>>, <<>>,
                     <<"error", "OAuth not configured. Missing GOOGLE_CLIENT_ID or GOOGLE_CLIENT_SECRET.",
                       "hint", "Set these in your Vercel project environment variables.">>,
                     <<>>))
    ELSE redirectToProvider(i, e, OrText(i.req.redirect_uri, FALLBACK_REDIRECT_URI),
                            OrText(i.req.state, nonce),
                            "Path=/; HttpOnly; SameSite=Lax; Secure")

\* the callback's redirect target: the URI of the state, else the cookie,
\* else the fallback
appCallbackUriCookieFirst(decodedState, cookieRedirectUri) ==
    Or(Or(cookieRedirectUri, OptGet(decodedState, RedirectUriKey)),
       JStr(FALLBACK_REDIRECT_URI))

appCallbackUri(decodedState, cookieRedirectUri) ==
    Or(Or(OptGet(decodedState, RedirectUriKey), cookieRedirectUri),
       JStr(FALLBACK_REDIRECT_URI))

\* handleCallback up to its first await: the state and the cookie are read
\* before the try block is entered
enterCallback(i, d, c) ==
    IF d.throws THEN Escape(i, "decodeState")
    ELSE IF c.throws THEN Escape(i, "getCookieValue")
    ELSE [i EXCEPT !.pc = "awaitToken", !.decodedState = d.v,
                   !.cookieRedirectUri = c.v,
                   !.uri = appCallbackUri(d.v, c.v),
                   !.calls = <<"token">>]

handleCallback(i) ==
    enterCallback(i, DecodeIfGiven(i.req.state),
                  getCookieValue(i.req.cookie, OAuthRedirectUriCookie))

\* the catch clause of handleCallback
handleCallbackCatch(i) ==
    redirectWithError(i, i.uri, "server_error", "An unexpected error occurred")

\* handleCallbackToken that asks the token endpoint once more after a
\* non-2xx answer
handleCallbackTokenRetry(i, o) ==
    IF o.net = "reject" THEN handleCallbackCatch(i)
    ELSE IF ~o.ok THEN
        IF Len(i.calls) < 2
        THEN [i EXCEPT !.pc = "awaitToken", !.calls = Append(@, "token")]
        ELSE redirectWithError(i, i.uri, "token_exchange_failed",
                               "Failed to complete authorization")
    ELSE IF o.body # "json" THEN handleCallbackCatch(i)
    ELSE IF o.access = "" THEN
        redirectWithError(i, i.uri, "no_access_token", "No access token received")
    ELSE [i EXCEPT !.pc = "awaitChannel", !.access = o.access,
                   !.refresh = o.refresh, !.calls = Append(@, "channels")]

\* handleCallback from the token endpoint's answer to its next await
handleCallbackToken(i, o) ==
    IF o.net = "reject" THEN handleCallbackCatch(i)
    ELSE IF ~o.ok THEN
        IF o.body = "unreadable" THEN handleCallbackCatch(i)
        ELSE redirectWithError(i, i.uri, "token_exchange_failed",
                               "Failed to complete authorization")
    ELSE IF o.body # "json" THEN handleCallbackCatch(i)
    ELSE IF o.access = "" THEN
        redirectWithError(i, i.uri, "no_access_token", "No access token received")
    ELSE [i EXCEPT !.pc = "awaitChannel", !.access = o.access,
                   !.refresh = o.refresh, !.calls = Append(@, "channels")]

\* handleCallback from the channel endpoint's answer to its end
handleCallbackChannel(i, o) ==
    IF o.net = "reject" THEN handleCallbackCatch(i)
    ELSE IF ~o.ok THEN
        IF o.body = "unreadable" THEN handleCallbackCatch(i)
        ELSE redirectWithError(i, i.uri, "channel_fetch_failed",
                               "Failed to fetch channel information")
    ELSE IF o.body # "json" THEN handleCallbackCatch(i)
    ELSE IF o.items # "one" THEN
        redirectWithError(i, i.uri, "no_channel",
                          "No YouTube channel found for this account")
    ELSE
        Send(i, Resp(302, "redirect", JsToString(i.uri),
                     <<<<"success", "true">>, <<"channel_id", Channel.id>>,
                       <<"channel_title",
                         IF o.snippet THEN Channel.title ELSE "YouTube Channel">>,
                       <<"channel_thumbnail",
                         IF o.snippet THEN Channel.thumbnail ELSE "">>>>,
                     <<>>, <<>>, ClearedCookies("Path=/; HttpOnly")))

\* the redirect target when the provider reports an error
errorRedirectUri(decodedState, redirect_uri) ==
    Or(Or(OptGet(decodedState, RedirectUriKey), JStr(redirect_uri)),
       JStr(FALLBACK_REDIRECT_URI))

\* the invocation with the locals of the branch `if (error)`
errorLocals(i, d) ==
    [i EXCEPT !.decodedState = d.v,
              !.uri = errorRedirectUri(d.v, i.req.redirect_uri)]

\* the branch `if (error)`, d being the decoded state
handleError(i, d) ==
    IF d.throws THEN Escape(i, "decodeState")
    ELSE redirectWithError(errorLocals(i, d),
                           errorRedirectUri(d.v, i.req.redirect_uri),
                           i.req.error, "OAuth was denied or failed")

\* handler with `if (code)` put before `if (error)`
handlerBodyCodeFirst(i, e, nonce) ==
    IF i.req.method = "OPTIONS" THEN
        Send(i, Resp(200, "empty", <<>>, <<>>, <<>>, <<>>, <<>>))
    ELSE IF i.req.method # "GET" THEN
        Send(i, Resp(405, "json", <<>>, <<>>, <<>>,
                     <<"error", "Method not allowed">>, <<>>))
    ELSE IF i.req.code # "" THEN handleCallback(i)
    ELSE IF i.req.error # "" THEN handleError(i, DecodeIfGiven(i.req.state))
    ELSE initiateOAuth(i, e, nonce)

\* handler that looks at the method after `error` and `code`
handlerBodyGateLast(i, e, nonce) ==
    IF i.req.error # "" THEN handleError(i, DecodeIfGiven(i.req.state))
    ELSE IF i.req.code # "" THEN handleCallback(i)
    ELSE IF i.req.method = "OPTIONS" THEN
        Send(i, Resp(200, "empty", <<>>, <<>>, <<>>, <<>>, <<>>))
    ELSE IF i.req.method # "GET" THEN
        Send(i, Resp(405, "json", <<>>, <<>>, <<>>,
                     <<"error", "Method not allowed">>, <<>>))
    ELSE initiateOAuth(i, e, nonce)

\* handler after the CORS headers are set, up to the first await of the
\* path it takes
handlerBody(i, e, nonce) ==
    IF i.req.method = "OPTIONS" THEN
        Send(i, Resp(200, "empty", <<>>, <<>>, <<>>, <<>>, <<>>))
    ELSE IF i.req.method # "GET" THEN
        Send(i, Resp(405, "json", <<>>, <<>>, <<>>,
                     <<"error", "Method not allowed">>, <<>>))
    ELSE IF i.req.error # "" THEN handleError(i, DecodeIfGiven(i.req.state))
    ELSE IF i.req.code # "" THEN handleCallback(i)
    ELSE initiateOAuth(i, e, nonce)

handler(req, e, nonce) == handlerBody([Start(req) EXCEPT !.cors = TRUE], e, nonce)

(***************************************************************************)
(* src/unnamed/part_003: the other revision of the same endpoint.          *)
(***************************************************************************)
redirectWithError003(i, redirectUri, code, description) ==
    Send(i, Resp(302, "redirect", JsToString(redirectUri),
                 <<<<"error", code>>, <<"error_description", description>>>>,
                 <<>>, <<>>, ClearedCookies("Path=/")))

\* the catch clause of the callback branch
callback003Catch(i) ==
    redirectWithError003(i, i.uri, "server_error", "Unexpected server error")

\* the callback branch from the token endpoint's answer to its next await
callback003Token(i, o) ==
    IF o.net = "reject" THEN callback003Catch(i)
    ELSE IF ~o.ok THEN
        redirectWithError003(i, i.uri, "token_exchange_failed",
                             "Failed to exchange token")
    ELSE IF o.body # "json" THEN callback003Catch(i)
    ELSE [i EXCEPT !.pc = "awaitChannel", !.access = o.access,
                   !.refresh = o.refresh, !.calls = Append(@, "channels")]

\* the callback branch from the channel endpoint's answer to its end
callback003Channel(i, o) ==
    IF o.net = "reject" THEN callback003Catch(i)
    ELSE IF ~o.ok THEN
        redirectWithError003(i, i.uri, "channel_fetch_failed",
                             "Failed to fetch channel")
    ELSE IF o.body # "json" THEN callback003Catch(i)
    ELSE IF o.items # "one" THEN
        redirectWithError003(i, i.uri, "no_channel", "No YouTube channel found")
    ELSE IF ~o.snippet THEN callback003Catch(i)
    ELSE
        Send(i, Resp(302, "redirect", JsToString(i.uri),
                     <<<<"success", "true">>, <<"channel_id", Channel.id>>,
                       <<"channel_title", Channel.title>>,
                       <<"channel_thumbnail", Channel.thumbnail>>>>,
                     <<>>, <<>>, <<>>))

\* the branch `if (error)`
handleError003(i, d) ==
    IF d.throws THEN Escape(i, "decodeState")
    ELSE redirectWithError003(errorLocals(i, d),
                              errorRedirectUri(d.v, i.req.redirect_uri),
                              i.req.error, "OAuth failed or was cancelled")

\* the branch `if (code)` up to its first await: the state and the cookie
\* are read before the try block is entered
callback003(i) ==
    enterCallback(i, DecodeIfGiven(i.req.state),
                  getCookieValue(i.req.cookie, OAuthRedirectUriCookie))

\* INITIATE
initiate003(i, e, nonce) ==
    IF e.GOOGLE_CLIENT_ID = "" \/ e.GOOGLE_CLIENT_SECRET = "" THEN
        Send(i, Resp(500, "json", <<>>, <<>>, <<>>,
                     <<"error", "OAuth not configured">>, <<>>))
    ELSE redirectToProvider(i, e, OrText(i.req.redirect_uri, FALLBACK_REDIRECT_URI),
                            nonce, "Path=/; Secure; SameSite=Lax")

\* handler after the CORS headers are set, up to the first await of the
\* path it takes
handlerBody003(i, e, nonce) ==
    IF i.req.method = "OPTIONS" THEN
        Send(i, Resp(200, "empty", <<>>, <<>>, <<>>, <<>>, <<>>))
    ELSE IF i.req.method # "GET" THEN
        Send(i, Resp(405, "json", <<>>, <<>>, <<>>,
                     <<"error", "Method not allowed">>, <<>>))
    ELSE IF i.req.error # "" THEN handleError003(i, DecodeIfGiven(i.req.state))
    ELSE IF i.req.code # "" THEN callback003(i)
    ELSE initiate003(i, e, nonce)

handler003(req, e, nonce) == handlerBody003([Start(req) EXCEPT !.cors = TRUE], e, nonce)

(***************************************************************************)
(* src/api/oauth/callback.ts                                               *)
(***************************************************************************)
\* handler, up to its first await
handlerCallbackTs(req) ==
    IF req.code = "" THEN
        Send(Start(req), Resp(400, "text", <<>>, <<>>, <<>>,
                              <<"Missing authorization code.">>, <<>>))
    ELSE [Start(req) EXCEPT !.pc = "awaitToken", !.calls = <<"token">>]

\* the catch clause
callbackTsCatch(i) ==
    Send(i, Resp(500, "text", <<>>, <<>>, <<>>, <<"Unexpected OAuth error.">>, <<>>))

\* from the token endpoint's answer (its body is parsed before its status
\* is looked at) to the next await
callbackTsToken(i, o) ==
    IF o.net = "reject" \/ o.body # "json" THEN callbackTsCatch(i)
    ELSE IF ~o.ok THEN
        Send(i, Resp(500, "text", <<>>, <<>>, <<>>,
                     <<"Failed to exchange OAuth code.">>, <<>>))
    ELSE [i EXCEPT !.pc = "awaitChannel", !.access = o.access,
                   !.refresh = o.refresh, !.calls = Append(@, "channels")]

\* from the channel endpoint's answer to the end
callbackTsChannel(i, o) ==
    IF o.net = "reject" \/ o.body # "json" THEN callbackTsCatch(i)
    ELSE IF ~o.ok \/ o.items # "one" THEN
        Send(i, Resp(500, "text", <<>>, <<>>, <<>>,
                     <<"Failed to fetch YouTube channel.">>, <<>>))
    ELSE IF ~o.snippet THEN callbackTsCatch(i)
    ELSE
        Send(i, Resp(200, "html", <<>>, <<>>, <<>>,
                     <<"<html><body><script>localStorage.setItem('youtube_channel', ...); window.close();</script><p>YouTube connected. You can close this window.</p></body></html>",
                       Channel.id, Channel.title, Channel.thumbnail>>,
                     <<>>))

(***************************************************************************)
(* src/unnamed/part_000: the first callback, which shows the code.         *)
(***************************************************************************)
handler000(req) ==
    IF req.code = "" THEN
        Send(Start(req), Resp(400, "text", <<>>, <<>>, <<>>,
                              <<"Missing authorization code">>, <<>>))
    ELSE
        Send(Start(req), Resp(200, "text", <<>>, <<>>, <<>>,
                              <<"OAuth completed successfully. Authorization code received:",
                                req.code, "You can close this window.">>,
                              <<>>))

(***************************************************************************)
(* The requests that arrive.                                               *)
(***************************************************************************)
\* the error_description a provider may send along with `error`
ProviderDescriptions == {"", "The user did not approve"}

\* a valid `state` of another flow: encodeState(AppUri2, 'n2')
ForeignState == encodeState(AppUri2, <<110, 50>>)

\* the `state` a callback may carry: none, a forged one, or one a browser
\* brings back from the provider
StateInputs == {<<>>, ForeignState} \cup ForgedStates \cup {p.state : p \in pending}

\* the Cookie header a callback may carry: none, another flow's, an
\* ill-formed one, or the backup cookies of a flow under way
CookieInputs == {<<>>, ForeignCookie, MalformedCookie} \cup {p.cookie : p \in pending}

\* requests to the bridge endpoint: a client starting a flow, the provider
\* sending the browser back (or someone pretending to), other methods
BridgeRequests(route) ==
    {Req(route, "GET", "", "", st, ru, sc, ck, "") :
        st \in {<<>>, ClientState}, ru \in {<<>>, AppUri1},
        sc \in {"", "https://www.googleapis.com/auth/youtube.readonly"},
        ck \in {<<>>, ForeignCookie}}
    \cup {Req(route, "GET", AuthCode, "", st, <<>>, "", ck, "") :
        st \in StateInputs, ck \in CookieInputs}
    \cup {Req(route, "GET", c, "access_denied", st, ru, "", ck, ed) :
        c \in {"", AuthCode}, st \in StateInputs, ru \in {<<>>, AppUri2},
        ck \in CookieInputs, ed \in ProviderDescriptions}
    \cup {Req(route, "GET", "", "interaction_required", <<>>, <<>>, "", <<>>, ed) :
        ed \in ProviderDescriptions}
    \cup {Req(route, m, c, er, st, ru, "", ck, "") :
        m \in {"POST", "OPTIONS"}, c \in {"", AuthCode},
        er \in {"", "access_denied"}, st \in {<<>>, ClientState},
        ru \in {<<>>, AppUri1}, ck \in {<<>>, ForeignCookie}}

\* requests to the older callback endpoints, which read `code` alone
LegacyRequests(route) ==
    {Req(route, m, c, er, <<>>, <<>>, "", <<>>, "") :
        m \in {"GET", "POST"}, c \in {"", AuthCode}, er \in {"", "access_denied"}}

(***************************************************************************)
(* The state machine.                                                      *)
(***************************************************************************)
NoProbe == [op |-> "none", of |-> "none", redirectUri |-> <<>>, csrfToken |-> <<>>,
            encoded |-> <<>>, decoded |-> Return(JNull)]

Init ==
    /\ env \in Envs
    /\ pending = {}
    /\ inv = IdleInv
    /\ inv2 = IdleInv
    /\ probe = NoProbe

ReceiveYoutube ==
    /\ inv.pc = "idle"
    /\ \E req \in BridgeRequests("youtube"), nonce \in Nonces :
           inv' = handler(req, env, nonce)
    /\ UNCHANGED <<env, pending, inv2, probe>>

ReceivePart003 ==
    /\ inv.pc = "idle"
    /\ \E req \in BridgeRequests("part_003"), nonce \in Nonces :
           inv' = handler003(req, env, nonce)
    /\ UNCHANGED <<env, pending, inv2, probe>>

ReceiveCallbackTs ==
    /\ inv.pc = "idle"
    /\ \E req \in LegacyRequests("callback.ts") : inv' = handlerCallbackTs(req)
    /\ UNCHANGED <<env, pending, inv2, probe>>

ReceivePart000 ==
    /\ inv.pc = "idle"
    /\ \E req \in LegacyRequests("part_000") : inv' = handler000(req)
    /\ UNCHANGED <<env, pending, inv2, probe>>

\* the invocation i resumes with the token endpoint's answer o
TokenStep(i, o) ==
    CASE i.req.route = "youtube" -> handleCallbackToken([i EXCEPT !.tokenResponse = o], o)
      [] i.req.route = "part_003" -> callback003Token([i EXCEPT !.tokenResponse = o], o)
      [] OTHER -> callbackTsToken([i EXCEPT !.tokenResponse = o], o)

\* the invocation i resumes with the channel endpoint's answer o
ChannelStep(i, o) ==
    CASE i.req.route = "youtube" -> handleCallbackChannel([i EXCEPT !.channelResponse = o], o)
      [] i.req.route = "part_003" -> callback003Channel([i EXCEPT !.channelResponse = o], o)
      [] OTHER -> callbackTsChannel([i EXCEPT !.channelResponse = o], o)

\* the token endpoint answers the exchange request
TokenResponds ==
    /\ inv.pc = "awaitToken"
    /\ \E o \in TokenOutcomes : inv' = TokenStep(inv, o)
    /\ UNCHANGED <<env, pending, inv2, probe>>

\* the channel endpoint answers
ChannelResponds ==
    /\ inv.pc = "awaitChannel"
    /\ \E o \in ChannelOutcomes : inv' = ChannelStep(inv, o)
    /\ UNCHANGED <<env, pending, inv2, probe>>

\* whether a response sends the browser to the provider's consent screen
IsAuthorizeRedirect(res) == res.kind = "redirect" /\ res.base = GOOGLE_AUTH_URL

\* what the browser holds while the user is at the provider: the `state`
\* in the URL, the backup cookies, and (for reference) the URI INITIATE resolved
PendingOf(i) ==
    [state |-> i.res.state, uri |-> i.uri.s, csrf |-> i.csrf,
     cookie |-> CookieHeader(i.res.cookies[1].value, i.res.cookies[2].value)]

\* the response reaches the browser and the invocation is over; after an
\* INITIATE the browser goes to the provider with the `state`
Complete ==
    /\ inv.pc = "done"
    /\ inv' = IdleInv
    /\ pending' = IF IsAuthorizeRedirect(inv.res) /\ Cardinality(pending) < MaxPending
                  THEN pending \cup {PendingOf(inv)}
                  ELSE pending
    /\ UNCHANGED <<env, inv2, probe>>

\* the user gives up at the consent screen
Abandon ==
    /\ inv.pc = "idle"
    /\ \E p \in pending : pending' = pending \ {p}
    /\ UNCHANGED <<env, inv, inv2, probe>>

Next ==
    \/ ReceiveYoutube
    \/ ReceivePart003
    \/ ReceiveCallbackTs
    \/ ReceivePart000
    \/ TokenResponds
    \/ ChannelResponds
    \/ Complete
    \/ Abandon

Spec == Init /\ [][Next]_vars

(***************************************************************************)
(* The codec applied to chosen arguments: a pair is encoded and the result *)
(* decoded, a text that no encodeState wrote is decoded, and a request     *)
(* that carries the text as its `state` is received.                       *)
(***************************************************************************)
PairInput(redirectUri, csrfToken) ==
    [op |-> "input", of |-> "pair", redirectUri |-> redirectUri,
     csrfToken |-> csrfToken, encoded |-> <<>>, decoded |-> Return(JNull)]

TextInput(state) ==
    [op |-> "encoded", of |-> "text", redirectUri |-> <<>>, csrfToken |-> <<>>,
     encoded |-> state, decoded |-> Return(JNull)]

ProbeInputs ==
    {PairInput(r, c) : r \in Texts(UriAlphabet, MaxLen), c \in Texts(UriAlphabet, 1)}
    \cup {TextInput(s) : s \in Texts(RawAlphabet, MaxLen) \cup ForgedStates}
    \cup {TextInput(Base64UrlEncode(p)) :
             p \in Texts(JsonAlphabet, MaxLen) \cup CorruptPayloads}

InitCodec ==
    /\ env = Configured
    /\ pending = {}
    /\ inv = IdleInv
    /\ inv2 = IdleInv
    /\ probe \in ProbeInputs

ApplyEncode ==
    /\ probe.op = "input"
    /\ probe' = [probe EXCEPT !.op = "encoded",
                              !.encoded = encodeState(probe.redirectUri, probe.csrfToken)]
    /\ UNCHANGED <<env, pending, inv, inv2>>

ApplyDecode ==
    /\ probe.op = "encoded"
    /\ probe' = [probe EXCEPT !.op = "decoded", !.decoded = decodeState(probe.encoded)]
    /\ UNCHANGED <<env, pending, inv, inv2>>

\* a request to the bridge with `code` or `error` and the text as `state`
ProbedRequests ==
    {Req(rt, "GET", c, er, probe.encoded, <<>>, "", ck, "") :
        rt \in {"youtube", "part_003"}, c \in {"", AuthCode},
        er \in {"", "access_denied"}, ck \in {<<>>, ForeignCookie}}

ReceiveProbed ==
    /\ probe.op = "decoded"
    /\ probe.of = "text"
    /\ inv.pc = "idle"
    /\ \E req \in ProbedRequests, nonce \in Nonces :
           /\ req.code # "" \/ req.error # ""
           /\ inv' = IF req.route = "youtube" THEN handler(req, env, nonce)
                     ELSE handler003(req, env, nonce)
    /\ UNCHANGED <<env, pending, inv2, probe>>

NextCodec ==
    \/ ApplyEncode
    \/ ApplyDecode
    \/ ReceiveProbed

SpecCodec == InitCodec /\ [][NextCodec]_vars

(***************************************************************************)
(* What the properties below speak of.                                     *)
(***************************************************************************)
\* the two revisions of the bridge endpoint
BridgeRoutes == {"youtube", "part_003"}

\* a callback request: a GET whose query has `code` (and no `error`, which
\* the handler looks at first)
IsCallbackRequest(req) == req.method = "GET" /\ req.code # "" /\ req.error = ""

\* the value of the `error` parameter of a redirect, "" when it has none
ErrorOf(res) ==
    IF res.params # <<>> /\ res.params[1][1] = "error" THEN res.params[1][2] ELSE ""

\* the names of the query parameters of a redirect, in order
ParamNames(res) == [k \in DOMAIN res.params |-> res.params[k][1]]

\* the redirect target of a callback: the URI of the decoded state d when
\* there is one, else the cookie's value c when there is one, else the
\* fallback
TargetOf(d, c) ==
    IF d.v # JNull THEN Get(d.v, RedirectUriKey)
    ELSE IF ~c.throws /\ c.v # JNull THEN c.v
    ELSE JStr(FALLBACK_REDIRECT_URI)

CallbackTarget(req) ==
    TargetOf(DecodeIfGiven(req.state),
             getCookieValue(req.cookie, OAuthRedirectUriCookie))

\* what must stay in the bridge
Credentials ==
    {AccessToken, RefreshToken, AuthCode, env.GOOGLE_CLIENT_SECRET} \ {""}

\* the request without its `state` parameter
WithoutState(req) == [req EXCEPT !.state = <<>>]

\* the first step of the bridge endpoint of a route
FirstStep(req, e, nonce) ==
    IF req.route = "youtube" THEN handler(req, e, nonce)
    ELSE handler003(req, e, nonce)

\* an INITIATE request: a GET with neither `code` nor `error`
IsInitiateRequest(req) == req.method = "GET" /\ req.code = "" /\ req.error = ""

\* whether a redirect carries the query parameter name=value
HasParam(res, name, value) ==
    \E k \in DOMAIN res.params : res.params[k] = <<name, value>>

\* whether a response is the success redirect
IsSuccess(res) == res.status = 302 /\ HasParam(res, "success", "true")

\* how many times an invocation called the endpoint `what`
CallsTo(i, what) == Cardinality({k \in DOMAIN i.calls : i.calls[k] = what})

\* an answer that is no 2xx response with a JSON body: the step failed
Failed(o) == o.net = "reject" \/ (o.net = "response" /\ (~o.ok \/ o.body # "json"))

\* whether the csrf of the decoded state d and the oauth_state cookie c are
\* both there and differ
CsrfDiffers(d, c) ==
    /\ ~d.throws
    /\ d.v # JNull
    /\ ~c.throws
    /\ c.v # JNull
    /\ Get(d.v, CsrfKey) # c.v

CsrfMismatch(req) ==
    CsrfDiffers(DecodeIfGiven(req.state), getCookieValue(req.cookie, OAuthStateCookie))

\* a non-empty string
IsText(v) == v.t = "string" /\ v.s # <<>>

\* the `state` values of the payloads of CorruptPayloads
CorruptStates == {Base64UrlEncode(p) : p \in CorruptPayloads}

(***************************************************************************)
(* Two invocations served at the same time.  A handler has no variable     *)
(* outside its own call: the module level holds constants only, read from  *)
(* the environment when the module is loaded.  The steps of the two        *)
(* invocations interleave at their awaits.                                 *)
(***************************************************************************)
InvOf(k) == IF k = 1 THEN inv ELSE inv2

\* invocation k moves to `next`, the other one stays where it is
Serve(k, next) ==
    IF k = 1 THEN inv' = next /\ UNCHANGED inv2
    ELSE inv2' = next /\ UNCHANGED inv

InitConcurrent ==
    /\ env = Configured
    /\ pending = {}
    /\ inv = IdleInv
    /\ inv2 = IdleInv
    /\ probe = NoProbe

\* a request to api/auth/youtube arrives while the other invocation is
\* anywhere: a client starting a flow, a browser coming back with `code`
\* (its own flow's state and cookies, or another flow's state), a provider
\* error
ReceiveConcurrent ==
    /\ \E k \in 1..2, nonce \in Nonces :
         /\ InvOf(k).pc = "idle"
         /\ \E req \in {Req("youtube", "GET", "", "", <<>>, ru, "", <<>>, "") :
                           ru \in {<<>>, AppUri1}}
                       \cup {Req("youtube", "GET", AuthCode, "", p.state, <<>>, "", p.cookie, "") :
                           p \in pending}
                       \cup {Req("youtube", "GET", AuthCode, "", ForeignState, <<>>, "", ck, "") :
                           ck \in {<<>>} \cup {p.cookie : p \in pending}}
                       \cup {Req("youtube", "GET", "", "access_denied", <<>>, AppUri2, "", <<>>, "")} :
                Serve(k, handler(req, env, nonce))
    /\ UNCHANGED <<env, pending, probe>>

\* the token endpoint answers one of the invocations: fetch fails, a 400,
\* or a 200 with tokens
TokenRespondsShared ==
    /\ \E k \in 1..2 :
         /\ InvOf(k).pc = "awaitToken"
         /\ \E o \in {TokenOutcome("reject", FALSE, "unreadable", "", ""),
                      TokenOutcome("response", FALSE, "text", "", ""),
                      TokenOutcome("response", TRUE, "json", AccessToken, RefreshToken)} :
                Serve(k, TokenStep([InvOf(k) EXCEPT !.uri = InvOf(3 - k).uri], o))
    /\ UNCHANGED <<env, pending, probe>>

TokenRespondsConcurrent ==
    /\ \E k \in 1..2 :
         /\ InvOf(k).pc = "awaitToken"
         /\ \E o \in {TokenOutcome("reject", FALSE, "unreadable", "", ""),
                      TokenOutcome("response", FALSE, "text", "", ""),
                      TokenOutcome("response", TRUE, "json", AccessToken, RefreshToken)} :
                Serve(k, TokenStep(InvOf(k), o))
    /\ UNCHANGED <<env, pending, probe>>

\* the channel endpoint answers one of the invocations: fetch fails, no
\* channel, or one channel
ChannelRespondsConcurrent ==
    /\ \E k \in 1..2 :
         /\ InvOf(k).pc = "awaitChannel"
         /\ \E o \in {ChannelOutcome("reject", FALSE, "unreadable", "missing", FALSE),
                      ChannelOutcome("response", TRUE, "json", "empty", FALSE),
                      ChannelOutcome("response", TRUE, "json", "one", TRUE)} :
                Serve(k, ChannelStep(InvOf(k), o))
    /\ UNCHANGED <<env, pending, probe>>

\* the response of one of the invocations reaches its browser
CompleteConcurrent ==
    /\ \E k \in 1..2 :
         /\ InvOf(k).pc = "done"
         /\ Serve(k, IdleInv)
         /\ pending' = IF IsAuthorizeRedirect(InvOf(k).res) /\ Cardinality(pending) < MaxPending
                       THEN pending \cup {PendingOf(InvOf(k))}
                       ELSE pending
    /\ UNCHANGED <<env, probe>>

NextConcurrent ==
    \/ ReceiveConcurrent
    \/ TokenRespondsConcurrent
    \/ ChannelRespondsConcurrent
    \/ CompleteConcurrent

SpecConcurrent == InitConcurrent /\ [][NextConcurrent]_vars

\* the invocation that is alone with the request req, the nonce and the
\* answers `to` of the token endpoint and `co` of the channel endpoint, as
\* far as these answers have come
AloneAfterToken(b, co) ==
    IF b.pc = "awaitChannel" /\ co # NoAnswer THEN ChannelStep(b, co) ELSE b

AloneAfterFirst(a, to, co) ==
    IF a.pc = "awaitToken" /\ to # NoAnswer
    THEN AloneAfterToken(TokenStep(a, to), co)
    ELSE a

RunAlone(req, e, nonce, to, co) == AloneAfterFirst(FirstStep(req, e, nonce), to, co)

(***************************************************************************)
(* C1.  State continuity: a callback request that carries the `state` an   *)
(* INITIATE emitted for the frontend URI R is answered with a redirect to  *)
(* R, whatever its Cookie header is and whatever ran in between.           *)
(***************************************************************************)
StateContinuity ==
    \A p \in pending :
        (/\ inv.pc = "done"
         /\ inv.req.route \in BridgeRoutes
         /\ IsCallbackRequest(inv.req)
         /\ inv.req.state = p.state)
        => (inv.res.status = 302 /\ inv.res.base = p.uri)

\* a callback with an emitted state and an ill-formed backup cookie has ended
\* without a redirect
ContinuityLost ==
    \E p \in pending :
        /\ inv.pc = "done"
        /\ inv.req.route = "youtube"
        /\ IsCallbackRequest(inv.req)
        /\ inv.req.state = p.state
        /\ inv.req.cookie = MalformedCookie
        /\ inv.res.status # 302

(***************************************************************************)
(* C2.  Always returns control: every callback request to the bridge ends  *)
(* in one 302 redirect, and no exception leaves the handler.               *)
(***************************************************************************)
AlwaysReturnsControl ==
    (/\ inv.pc = "done"
     /\ inv.req.route \in BridgeRoutes
     /\ IsCallbackRequest(inv.req))
    => (/\ inv.uncaught = ""
        /\ inv.sent = 1
        /\ inv.res.status = 302
        /\ inv.res.kind = "redirect")

\* the URIError of decodeURIComponent has left handleCallback
ExceptionEscapes ==
    /\ inv.pc = "done"
    /\ inv.req.route = "youtube"
    /\ IsCallbackRequest(inv.req)
    /\ inv.uncaught = "getCookieValue"
    /\ inv.sent = 0

(***************************************************************************)
(* C3.  Round trip of the codec: decoding what encodeState made of a pair  *)
(* of non-empty texts gives an object with exactly redirect_uri and csrf,  *)
(* each the text that was encoded.                                         *)
(***************************************************************************)
RoundTripLaw ==
    (probe.of = "pair" /\ probe.op = "decoded")
    => (/\ ~probe.decoded.throws
        /\ probe.decoded.v.t = "object"
        /\ Len(probe.decoded.v.m) = 2
        /\ Get(probe.decoded.v, RedirectUriKey) = JStr(probe.redirectUri)
        /\ Get(probe.decoded.v, CsrfKey) = JStr(probe.csrfToken))

\* the pair ('?%', '"') has been encoded and decoded
RoundTripDone ==
    /\ probe.of = "pair"
    /\ probe.op = "decoded"
    /\ probe.redirectUri = <<63, 37>>
    /\ probe.csrfToken = <<34>>
    /\ Get(probe.decoded.v, RedirectUriKey) = JStr(<<63, 37>>)

(***************************************************************************)
(* C4.  decodeState fails closed: it never throws; it returns null unless  *)
(* the text is an object with redirect_uri and csrf (so for every text too *)
(* short to be one and for every corrupt payload); and a request whose     *)
(* state does not decode is handled as the same request without state.     *)
(***************************************************************************)
DecodeFailsClosed ==
    /\ probe.op = "decoded"
       => (/\ ~probe.decoded.throws
           /\ \/ probe.decoded.v = JNull
              \/ /\ probe.decoded.v.t = "object"
                 /\ Truthy(Get(probe.decoded.v, RedirectUriKey))
                 /\ Truthy(Get(probe.decoded.v, CsrfKey))
           /\ (probe.of = "text"
               /\ (Len(probe.encoded) < 36 \/ probe.encoded \in CorruptStates))
              => probe.decoded.v = JNull)
    /\ inv.uncaught # "decodeState"
    /\ (inv.pc # "idle" /\ probe.decoded.v = JNull)
       => \E n \in Nonces :
              inv = [FirstStep(WithoutState(inv.req), env, n) EXCEPT !.req = inv.req]

\* the text '!{}' decoded to null, and a callback carrying it was received
UndecodableHandled ==
    /\ probe.op = "decoded"
    /\ probe.encoded = <<33, 123, 125>>
    /\ probe.decoded = Return(JNull)
    /\ inv.pc = "awaitToken"
    /\ inv.req.state = probe.encoded
    /\ inv.req.cookie = ForeignCookie
    /\ inv.uri = JStr(AppUri2)

ErrorBeforeCode ==
    (/\ inv.pc # "idle"
     /\ inv.req.route \in BridgeRoutes
     /\ inv.req.method = "GET"
     /\ inv.req.error # "")
    => (/\ inv.pc = "done"
        /\ inv.calls = <<>>
        /\ inv.uncaught = ""
        /\ inv.res.status = 302
        /\ inv.res.kind = "redirect"
        /\ ParamNames(inv.res) = <<"error", "error_description">>
        /\ ErrorOf(inv.res) = inv.req.error)

\* a GET with both `error` and `code` was answered with the error redirect
ErrorWithCodeAnswered ==
    /\ inv.pc = "done"
    /\ inv.req.route = "youtube"
    /\ inv.req.method = "GET"
    /\ inv.req.error = "access_denied"
    /\ inv.req.code = AuthCode
    /\ ErrorOf(inv.res) = "access_denied"
    /\ inv.calls = <<>>

(***************************************************************************)
(* C7.  The callback path emits only redirects: every answer to a callback *)
(* request is a 302 whose parameters are the success shape or the error    *)
(* shape, never a page.                                                    *)
(***************************************************************************)
OnlyRedirects ==
    (/\ inv.pc = "done"
     /\ inv.sent > 0
     /\ inv.req.route \in {"youtube", "callback.ts"}
     /\ IsCallbackRequest(inv.req))
    => (/\ inv.res.status = 302
        /\ inv.res.kind = "redirect"
        /\ ParamNames(inv.res) \in
               {<<"success", "channel_id", "channel_title", "channel_thumbnail">>,
                <<"error", "error_description">>})

\* a callback request was answered with the HTML page of callback.ts
HtmlPageSent ==
    /\ inv.pc = "done"
    /\ inv.req.route = "callback.ts"
    /\ IsCallbackRequest(inv.req)
    /\ inv.res.status = 200
    /\ inv.res.kind = "html"

(***************************************************************************)
(* C8.  No credential leaves the bridge: no answer has the access token,   *)
(* the refresh token, the authorization code or the client secret in its   *)
(* redirect URL or its body, and a cookie holds nothing but the frontend   *)
(* URI and the CSRF token of the request.                                  *)
(***************************************************************************)
NoCredentialLeaves ==
    inv.pc = "done"
    => (/\ \A k \in DOMAIN inv.res.params : inv.res.params[k][2] \notin Credentials
        /\ \A k \in DOMAIN inv.res.body : inv.res.body[k] \notin Credentials
        /\ \A k \in DOMAIN inv.res.cookies :
               inv.res.cookies[k].value \in
                   {<<>>, inv.req.state,
                    encodeURIComponent(OrText(inv.req.redirect_uri,
                                              FALLBACK_REDIRECT_URI))}
                   \cup Nonces)

\* the page of part_000 shows the authorization code
CodeShown ==
    /\ inv.pc = "done"
    /\ inv.req.route = "part_000"
    /\ inv.res.status = 200
    /\ inv.req.code = AuthCode
    /\ \E k \in DOMAIN inv.res.body : inv.res.body[k] = AuthCode

(***************************************************************************)
(* C9.  Missing refresh token: after a 2xx answer of the token endpoint    *)
(* with an access token and without refresh_token the callback fetches no  *)
(* channel and is answered with error=missing_refresh_token.               *)
(***************************************************************************)
MissingRefreshToken ==
    (/\ inv.req.route \in BridgeRoutes
     /\ IsCallbackRequest(inv.req)
     /\ inv.tokenResponse.net = "response"
     /\ inv.tokenResponse.ok
     /\ inv.tokenResponse.body = "json"
     /\ inv.tokenResponse.access # ""
     /\ inv.tokenResponse.refresh = "")
    => (/\ inv.calls = <<"token">>
        /\ inv.pc = "done" => ErrorOf(inv.res) = "missing_refresh_token")

\* a callback whose exchange gave no refresh token was answered with success
SuccessWithoutRefreshToken ==
    /\ inv.pc = "done"
    /\ inv.req.route = "youtube"
    /\ IsCallbackRequest(inv.req)
    /\ inv.tokenResponse.net = "response"
    /\ inv.tokenResponse.access = AccessToken
    /\ inv.tokenResponse.refresh = ""
    /\ inv.calls = <<"token", "channels">>
    /\ ParamNames(inv.res)[1] = "success"

(***************************************************************************)
(* C10.  Error taxonomy: a callback whose token exchange is answered with  *)
(* a non-2xx status ends in error=token_exchange_failed, one whose channel *)
(* fetch is answered with a non-2xx status in error=channel_fetch_failed,  *)
(* one whose fetch finds no channel in error=no_channel, each a redirect   *)
(* to the resolved URI, and the codes differ from each other and from      *)
(* server_error.                                                           *)
(***************************************************************************)
ErrorTaxonomy ==
    /\ Cardinality({"token_exchange_failed", "channel_fetch_failed", "no_channel",
                    "server_error"}) = 4
    /\ (/\ inv.pc = "done"
        /\ inv.req.route \in BridgeRoutes
        /\ IsCallbackRequest(inv.req))
       => (/\ (inv.tokenResponse.net = "response" /\ ~inv.tokenResponse.ok)
              => (/\ ErrorOf(inv.res) = "token_exchange_failed"
                  /\ inv.res.base = JsToString(inv.uri))
           /\ (inv.channelResponse.net = "response" /\ ~inv.channelResponse.ok)
              => (/\ ErrorOf(inv.res) = "channel_fetch_failed"
                  /\ inv.res.base = JsToString(inv.uri))
           /\ (/\ inv.channelResponse.net = "response"
               /\ inv.channelResponse.ok
               /\ inv.channelResponse.body = "json"
               /\ inv.channelResponse.items = "empty")
              => (/\ ErrorOf(inv.res) = "no_channel"
                  /\ inv.res.base = JsToString(inv.uri)))

\* a non-2xx answer of the token endpoint ended in error=server_error
RejectedExchangeAsServerError ==
    /\ inv.pc = "done"
    /\ inv.req.route = "youtube"
    /\ IsCallbackRequest(inv.req)
    /\ inv.tokenResponse.net = "response"
    /\ ~inv.tokenResponse.ok
    /\ inv.tokenResponse.body = "unreadable"
    /\ ErrorOf(inv.res) = "server_error"

(***************************************************************************)
(* C11.  Provider error pass-through: a GET with `error` and neither a     *)
(* `state` nor a Cookie header is answered with a 302 to the fallback URI  *)
(* whose `error` is the provider's value and whose error_description is    *)
(* the endpoint's fixed text, whatever description the provider sent.      *)
(***************************************************************************)
ProviderErrorPassThrough ==
    (/\ inv.pc = "done"
     /\ inv.req.route \in BridgeRoutes
     /\ inv.req.method = "GET"
     /\ inv.req.error # ""
     /\ inv.req.state = <<>>
     /\ inv.req.cookie = <<>>)
    => (/\ inv.res.status = 302
        /\ inv.res.kind = "redirect"
        /\ inv.res.base = FALLBACK_REDIRECT_URI
        /\ ParamNames(inv.res) = <<"error", "error_description">>
        /\ ErrorOf(inv.res) = inv.req.error
        /\ inv.res.params[2][2] =
               (IF inv.req.route = "youtube" THEN "OAuth was denied or failed"
                ELSE "OAuth failed or was cancelled"))

\* a provider error without state or cookie was redirected to the URI of
\* the request's redirect_uri parameter
ErrorSentToQueryUri ==
    /\ inv.pc = "done"
    /\ inv.req.route = "youtube"
    /\ inv.req.method = "GET"
    /\ inv.req.error = "access_denied"
    /\ inv.req.state = <<>>
    /\ inv.req.cookie = <<>>
    /\ inv.req.redirect_uri = AppUri2
    /\ inv.res.status = 302
    /\ inv.res.base = AppUri2

(***************************************************************************)
(* C12.  INITIATE output: with the client id and secret configured, a GET  *)
(* with neither `code` nor `error` is answered with a 302 to the           *)
(* authorization URL with response_type=code, access_type=offline,         *)
(* prompt=consent and a `state` that decodes to the redirect_uri parameter *)
(* or, without one, to the fallback URI; the response sets the two backup  *)
(* cookies with Max-Age=600.                                               *)
(***************************************************************************)
InitiateOutput ==
    (/\ inv.pc = "done"
     /\ inv.req.route \in BridgeRoutes
     /\ IsInitiateRequest(inv.req)
     /\ env.GOOGLE_CLIENT_ID # ""
     /\ env.GOOGLE_CLIENT_SECRET # "")
    => (/\ inv.uncaught = ""
        /\ inv.res.status = 302
        /\ inv.res.kind = "redirect"
        /\ inv.res.base = GOOGLE_AUTH_URL
        /\ HasParam(inv.res, "response_type", "code")
        /\ HasParam(inv.res, "access_type", "offline")
        /\ HasParam(inv.res, "prompt", "consent")
        /\ ~decodeState(inv.res.state).throws
        /\ OptGet(decodeState(inv.res.state).v, RedirectUriKey) =
               JStr(IF inv.req.redirect_uri # <<>> THEN inv.req.redirect_uri
                    ELSE FALLBACK_REDIRECT_URI)
        /\ Len(inv.res.cookies) = 2
        /\ inv.res.cookies[1].name = "oauth_redirect_uri"
        /\ inv.res.cookies[2].name = "oauth_state"
        /\ \A k \in 1..2 : inv.res.cookies[k].maxAge = 600)

\* a GET with redirect_uri 'a:/?x=1&y#%' was sent to the consent screen with
\* a state that decodes to that URI
InitiateAnswered ==
    /\ inv.pc = "done"
    /\ inv.req.route \in BridgeRoutes
    /\ IsInitiateRequest(inv.req)
    /\ inv.req.redirect_uri = AppUri1
    /\ inv.res.base = GOOGLE_AUTH_URL
    /\ Get(decodeState(inv.res.state).v, RedirectUriKey) = JStr(AppUri1)
    /\ inv.res.cookies[1].maxAge = 600

(***************************************************************************)
(* C13.  INITIATE misconfiguration: without the client id or the client    *)
(* secret an INITIATE request is answered with status 500 and the JSON     *)
(* body {error: "OAuth not configured"}, without a redirect and without a  *)
(* cookie; a request with `code` or `error` is never answered with that    *)
(* 500 and ends in a redirect.                                             *)
(***************************************************************************)
InitiateMisconfigured ==
    (/\ inv.pc = "done"
     /\ inv.req.route \in BridgeRoutes
     /\ inv.req.method = "GET"
     /\ (env.GOOGLE_CLIENT_ID = "" \/ env.GOOGLE_CLIENT_SECRET = ""))
    => IF IsInitiateRequest(inv.req)
       THEN /\ inv.res.status = 500
            /\ inv.res.kind = "json"
            /\ inv.res.body = <<"error", "OAuth not configured">>
            /\ inv.res.base = <<>>
            /\ inv.res.cookies = <<>>
       ELSE /\ inv.res.status = 302
            /\ inv.res.kind = "redirect"

\* without the client secret an INITIATE request was answered with a 500
\* whose body is another text and a hint
OtherBodySent ==
    /\ inv.pc = "done"
    /\ inv.req.route = "youtube"
    /\ IsInitiateRequest(inv.req)
    /\ env.GOOGLE_CLIENT_SECRET = ""
    /\ inv.res.status = 500
    /\ inv.res.kind = "json"
    /\ Len(inv.res.body) = 4
    /\ inv.res.body[1] = "error"
    /\ inv.res.body[2] # "OAuth not configured"
    /\ inv.res.body[3] = "hint"

(***************************************************************************)
(* C14.  Method gate: a request whose method is neither GET nor OPTIONS is *)
(* answered 405 with the JSON body {error: "Method not allowed"}, an       *)
(* OPTIONS request 200 without body, whatever the query and the Cookie     *)
(* header are, without outbound call, cookie or redirect.                  *)
(***************************************************************************)
MethodGate ==
    (/\ inv.pc # "idle"
     /\ inv.req.route \in BridgeRoutes
     /\ inv.req.method # "GET")
    => (/\ inv.pc = "done"
        /\ inv.uncaught = ""
        /\ inv.sent = 1
        /\ inv.calls = <<>>
        /\ inv.res.cookies = <<>>
        /\ inv.res.base = <<>>
        /\ inv.res.params = <<>>
        /\ IF inv.req.method = "OPTIONS"
           THEN /\ inv.res.status = 200
                /\ inv.res.kind = "empty"
                /\ inv.res.body = <<>>
           ELSE /\ inv.res.status = 405
                /\ inv.res.kind = "json"
                /\ inv.res.body = <<"error", "Method not allowed">>)

\* a POST with `code`, `error`, `state`, redirect_uri and cookies was
\* answered 405
PostRefused ==
    /\ inv.pc = "done"
    /\ inv.req.route \in BridgeRoutes
    /\ inv.req.method = "POST"
    /\ inv.req.code = AuthCode
    /\ inv.req.error = "access_denied"
    /\ inv.req.state = ClientState
    /\ inv.req.redirect_uri = AppUri1
    /\ inv.req.cookie = ForeignCookie
    /\ inv.res.status = 405

(***************************************************************************)
(* C15.  Backup cookies are cleared on completion: every response to a GET *)
(* with `code` or `error`, the success redirect as well as every error     *)
(* redirect, carries the two Set-Cookie headers that expire                *)
(* oauth_redirect_uri and oauth_state (empty value, Max-Age=0).            *)
(***************************************************************************)
CookiesClearedOnCompletion ==
    (/\ inv.pc = "done"
     /\ inv.sent > 0
     /\ inv.req.route \in BridgeRoutes
     /\ inv.req.method = "GET"
     /\ (inv.req.code # "" \/ inv.req.error # ""))
    => (/\ Len(inv.res.cookies) = 2
        /\ inv.res.cookies[1].name = "oauth_redirect_uri"
        /\ inv.res.cookies[2].name = "oauth_state"
        /\ \A k \in 1..2 : /\ inv.res.cookies[k].value = <<>>
                           /\ inv.res.cookies[k].maxAge = 0)

\* the success redirect of part_003 was sent without any Set-Cookie header
SuccessKeepsCookies ==
    /\ inv.pc = "done"
    /\ inv.req.route = "part_003"
    /\ IsCallbackRequest(inv.req)
    /\ inv.req.cookie # <<>>
    /\ inv.res.status = 302
    /\ HasParam(inv.res, "success", "true")
    /\ inv.res.cookies = <<>>

(***************************************************************************)
(* C16.  Success implies durable tokens: the success redirect is sent only *)
(* after the invocation called the token store's upsert for the channel    *)
(* and got Ok (an outbound call after the channel fetch); without it the   *)
(* callback ends in an error redirect.                                     *)
(***************************************************************************)
SuccessImpliesStored ==
    (/\ inv.pc = "done"
     /\ inv.req.route \in BridgeRoutes
     /\ IsCallbackRequest(inv.req)
     /\ IsSuccess(inv.res))
    => (/\ CallsTo(inv, "upsert") = 1
        /\ inv.calls = <<"token", "channels", "upsert">>)

\* the success redirect for channel UC123 was sent after the exchange and
\* the channel fetch, the only two outbound calls
SuccessWithoutStore ==
    /\ inv.pc = "done"
    /\ inv.req.route = "youtube"
    /\ IsCallbackRequest(inv.req)
    /\ IsSuccess(inv.res)
    /\ HasParam(inv.res, "channel_id", Channel.id)
    /\ inv.access = AccessToken
    /\ inv.refresh = RefreshToken
    /\ inv.calls = <<"token", "channels">>

(***************************************************************************)
(* C17.  No retries, strict sequencing: one invocation asks the token      *)
(* endpoint at most once and the channel endpoint at most once, the        *)
(* channel endpoint only after a 2xx JSON answer of the token endpoint;    *)
(* once a step has failed the invocation has ended in an error redirect    *)
(* with no call after the failed one.                                      *)
(***************************************************************************)
NoRetries ==
    (inv.pc # "idle" /\ inv.req.route \in BridgeRoutes)
    => (/\ CallsTo(inv, "token") <= 1
        /\ CallsTo(inv, "channels") <= 1
        /\ inv.calls \in {<<>>, <<"token">>, <<"token", "channels">>}
        /\ inv.pc = "awaitToken" => inv.calls = <<"token">>
        /\ inv.pc = "awaitChannel" => inv.calls = <<"token", "channels">>
        /\ CallsTo(inv, "channels") = 1
           => (/\ inv.tokenResponse.net = "response"
               /\ inv.tokenResponse.ok
               /\ inv.tokenResponse.body = "json")
        /\ Failed(inv.tokenResponse)
           => (/\ inv.pc = "done"
               /\ inv.calls = <<"token">>
               /\ inv.channelResponse = NoAnswer
               /\ ErrorOf(inv.res) # "")
        /\ Failed(inv.channelResponse)
           => (/\ inv.pc = "done"
               /\ inv.calls = <<"token", "channels">>
               /\ ErrorOf(inv.res) # "")
        /\ (inv.pc = "done" /\ ErrorOf(inv.res) \in {"token_exchange_failed", "no_access_token"})
           => inv.calls = <<"token">>)

\* a callback whose exchange was answered with a non-2xx status ended in
\* token_exchange_failed after that one call
ExchangeFailedOnce ==
    /\ inv.pc = "done"
    /\ inv.req.route = "youtube"
    /\ IsCallbackRequest(inv.req)
    /\ inv.tokenResponse.net = "response"
    /\ ~inv.tokenResponse.ok
    /\ inv.calls = <<"token">>
    /\ ErrorOf(inv.res) = "token_exchange_failed"

(***************************************************************************)
(* C18.  Redirect target on a provider error: a GET with `error` is        *)
(* redirected to the target a callback resolves (the URI of the decoded    *)
(* state, else the oauth_redirect_uri cookie, else the fallback), on which *)
(* the redirect_uri query parameter has no influence.                      *)
(***************************************************************************)
ErrorTargetPrecedence ==
    (/\ inv.pc = "done"
     /\ inv.sent > 0
     /\ inv.req.route \in BridgeRoutes
     /\ inv.req.method = "GET"
     /\ inv.req.error # "")
    => (/\ inv.res.status = 302
        /\ inv.res.base = JsToString(CallbackTarget(inv.req)))

\* a provider error without state, whose Cookie header holds the frontend
\* URI 'b:/"\', was redirected to the fallback URI
ErrorIgnoresCookie ==
    /\ inv.pc = "done"
    /\ inv.req.route \in BridgeRoutes
    /\ inv.req.method = "GET"
    /\ inv.req.error = "access_denied"
    /\ inv.req.state = <<>>
    /\ inv.req.redirect_uri = <<>>
    /\ inv.req.cookie = ForeignCookie
    /\ CallbackTarget(inv.req) = JStr(AppUri2)
    /\ inv.res.status = 302
    /\ inv.res.base = FALLBACK_REDIRECT_URI

(***************************************************************************)
(* C19.  CSRF verification: a callback request with a decodable state and  *)
(* an oauth_state cookie whose value differs from the decoded csrf is      *)
(* answered with an error=state_mismatch redirect and no token exchange is *)
(* requested.                                                              *)
(***************************************************************************)
CsrfVerified ==
    (/\ inv.pc # "idle"
     /\ inv.req.route \in BridgeRoutes
     /\ IsCallbackRequest(inv.req)
     /\ CsrfMismatch(inv.req))
    => (/\ inv.pc = "done"
        /\ inv.calls = <<>>
        /\ inv.res.status = 302
        /\ ErrorOf(inv.res) = "state_mismatch")

\* a callback whose state holds the csrf 'n2' and whose oauth_state cookie
\* is not 'n2' has requested the token exchange
MismatchExchanged ==
    /\ inv.pc = "awaitToken"
    /\ inv.req.route = "youtube"
    /\ IsCallbackRequest(inv.req)
    /\ inv.req.state = ForeignState
    /\ Get(inv.decodedState, CsrfKey) = JStr(<<110, 50>>)
    /\ inv.req.cookie # <<>>
    /\ inv.req.cookie # ForeignCookie
    /\ CsrfMismatch(inv.req)
    /\ inv.calls = <<"token">>

(***************************************************************************)
(* C20.  The CSRF nonce is generated by the bridge: the csrf that INITIATE *)
(* puts into the encoded state and into the oauth_state cookie is a value  *)
(* of generateState(), whatever the parameters of the request are (its     *)
(* `state` parameter among them).                                          *)
(***************************************************************************)
NonceGenerated ==
    (/\ inv.pc = "done"
     /\ inv.req.route \in BridgeRoutes
     /\ IsInitiateRequest(inv.req)
     /\ IsAuthorizeRedirect(inv.res))
    => (/\ OptGet(decodeState(inv.res.state).v, CsrfKey).t = "string"
        /\ OptGet(decodeState(inv.res.state).v, CsrfKey).s \in Nonces
        /\ inv.res.cookies[2].name = "oauth_state"
        /\ inv.res.cookies[2].value \in Nonces
        /\ inv.res.cookies[2].value = OptGet(decodeState(inv.res.state).v, CsrfKey).s)

\* an INITIATE request with state=cs was answered with a state and a cookie
\* whose csrf is 'cs'
ClientStateAsCsrf ==
    /\ inv.pc = "done"
    /\ inv.req.route = "youtube"
    /\ IsInitiateRequest(inv.req)
    /\ inv.req.state = ClientState
    /\ IsAuthorizeRedirect(inv.res)
    /\ Get(decodeState(inv.res.state).v, CsrfKey) = JStr(ClientState)
    /\ inv.res.cookies[2].value = ClientState

(***************************************************************************)
(* C21.  Shape check of decodeState: a value that decodeState returns has  *)
(* a redirect_uri and a csrf that are non-empty strings (a payload whose   *)
(* fields are of another type decodes to absent), so the redirect target   *)
(* that a callback resolves is a string.                                   *)
(***************************************************************************)
DecodedShape ==
    /\ (probe.op = "decoded" /\ ~probe.decoded.throws /\ probe.decoded.v # JNull)
       => (/\ IsText(Get(probe.decoded.v, RedirectUriKey))
           /\ IsText(Get(probe.decoded.v, CsrfKey)))
    /\ (/\ inv.pc # "idle"
        /\ inv.uncaught = ""
        /\ inv.req.route \in BridgeRoutes
        /\ IsCallbackRequest(inv.req))
       => (/\ inv.decodedState # JNull
              => IsText(Get(inv.decodedState, RedirectUriKey))
           /\ IsText(inv.uri))

\* the state of the payload {"redirect_uri":5,"csrf":true} decoded to an
\* object, and the callback that carried it resolved the number 5 as target
NumberResolved ==
    /\ probe.op = "decoded"
    /\ probe.decoded.v.t = "object"
    /\ Get(probe.decoded.v, RedirectUriKey).t = "number"
    /\ Get(probe.decoded.v, CsrfKey) = JBool(TRUE)
    /\ inv.pc = "awaitToken"
    /\ inv.req.route = "youtube"
    /\ IsCallbackRequest(inv.req)
    /\ inv.req.state = probe.encoded
    /\ inv.req.cookie = ForeignCookie
    /\ inv.uri.t = "number"
    /\ JsToString(inv.uri) = <<53>>

OneTerminalResponse ==
    (inv.pc # "idle" /\ inv.req.route \in BridgeRoutes)
    => (/\ inv.sent <= 1
        /\ inv.pc \in {"awaitToken", "awaitChannel"}
           => (inv.sent = 0 /\ inv.res = NoResponse)
        /\ inv.pc = "done"
           => (/\ inv.sent = 1
               /\ inv.res.status \in {200, 302, 405, 500}))

\* an invocation of part_003 has ended without having sent a response
EndedWithoutResponse ==
    /\ inv.pc = "done"
    /\ inv.req.route = "part_003"
    /\ IsCallbackRequest(inv.req)
    /\ inv.req.state = ForeignState
    /\ inv.req.cookie = MalformedCookie
    /\ inv.sent = 0
    /\ inv.res = NoResponse
    /\ inv.calls = <<>>

====
